---- MODULE Spec2Model ----
(***************************************************************************)
(* The aggregation pipeline of task_3_1 (src/unnamed/part_000) as a state  *)
(* machine: the state is the row stream between two stages, one action per *)
(* pipeline stage, taken in the order of the stage list.                   *)
(*                                                                         *)
(* Documents are records; a field a document does not have is a field      *)
(* outside the record's DOMAIN, an explicit null is NULL (numbers, dates)  *)
(* or NullText (strings).  Arrays are sequences.                           *)
(*                                                                         *)
(* The query of task_1_22 (src/task/sql-tasks.js) is a second state        *)
(* machine: the state is the row set between two steps of the query's      *)
(* evaluation, one action per join, filter, projection and ordering.  A    *)
(* table row is a record, a table a sequence of rows, SQL NULL is NULL or  *)
(* NullText.                                                               *)
(***************************************************************************)
EXTENDS Integers, Sequences, FiniteSets, TLC

VARIABLES
    opportunities,   \* the opportunities collection, in scan order
    clientCriteria,  \* the clientCriteria collection, in scan order
    pc,              \* index in Pipeline of the next stage to run
    rows,            \* the row stream produced by the stages run so far
    prev,            \* the row stream the last stage consumed
    atGroup,         \* the row stream that reached $group
    done,            \* names of the stages run so far, in order
    tables,          \* Customers, Orders, OrderDetails and Products of task_1_22
    sqlRows,         \* the rows produced by the query steps run so far
    sqlPc            \* index in QueryPlan of the next query step to run

sqlVars == <<tables, sqlRows, sqlPc>>

vars == <<opportunities, clientCriteria, pc, rows, prev, atGroup, done, sqlVars>>

-----------------------------------------------------------------------------
(* Literals of the query *)

InitiativeId == "58af4da0b310d92314627290"
OtherInitiativeId == "58af4da0b310d92314627291"
Ceiling == 9000
Category105 == 105
Category147 == 147
Categories == {Category105, Category147}
LoopValue == 50
ValueSet == {LoopValue}
VendorName == "ADP"

(* null of a numeric or date field, and of a string field *)
NULL == -1
NullText == "<null>"

-----------------------------------------------------------------------------
(* Bounds of the checked inputs *)

MaxOpps == 2
MaxContacts == 2
MaxQuestions == 2
MaxAnswers == 2
MaxLoops == 2
MaxCriteria == 2
MaxVersions == 2

-----------------------------------------------------------------------------
(* Generic helpers *)

Has(d, f) == f \in DOMAIN d

NoFields == [f \in {} |-> 0]

Range(s) == {s[i] : i \in 1..Len(s)}

BSeq(S, n) == UNION {[1..k -> S] : k \in 0..n}

RECURSIVE Concat(_)
Concat(ss) == IF ss = <<>> THEN <<>> ELSE Head(ss) \o Concat(Tail(ss))

(* elements of the array field f of d; none when the field is missing *)
Elems(d, f) == IF Has(d, f) THEN Range(d[f]) ELSE {}

RECURSIVE HasPath(_, _)
HasPath(d, p) == Has(d, p[1]) /\ (Len(p) = 1 \/ HasPath(d[p[1]], Tail(p)))

RECURSIVE GetPath(_, _)
GetPath(d, p) == IF Len(p) = 1 THEN d[p[1]] ELSE GetPath(d[p[1]], Tail(p))

RECURSIVE SetPath(_, _, _)
SetPath(d, p, v) ==
    IF Len(p) = 1 THEN [d EXCEPT ![p[1]] = v]
    ELSE [d EXCEPT ![p[1]] = SetPath(d[p[1]], Tail(p), v)]

RECURSIVE DropPath(_, _)
DropPath(d, p) ==
    IF ~Has(d, p[1]) THEN d
    ELSE IF Len(p) = 1 THEN [f \in DOMAIN d \ {p[1]} |-> d[f]]
    ELSE [d EXCEPT ![p[1]] = DropPath(d[p[1]], Tail(p))]

(* query operators on a value that may be null: null never compares *)
Lt(v, c) == v # NULL /\ v < c
Gte(v, c) == v # NULL /\ v >= c

-----------------------------------------------------------------------------
(* The document shapes the query reads:                                    *)
(* opportunity -> contacts[] -> questions[] -> answers[] -> loopInstances[] *)

LoopInstance(li, sel, txt) ==
    [loop_instance |-> li, is_selected |-> sel, loop_text |-> txt]

Answer(v, t, ls) ==
    [primary_answer_value |-> v, primary_answer_text |-> t, loopInstances |-> ls]

AnswerNoLoops(v, t) == [primary_answer_value |-> v, primary_answer_text |-> t]

Question(cat, as) ==
    [id |-> 0, category_id |-> cat, criteria_value |-> 1,
     label |-> "q", raw_text |-> "q?", answers |-> as]

QuestionNoAnswers(cat) ==
    [id |-> 0, category_id |-> cat, criteria_value |-> 1,
     label |-> "q", raw_text |-> "q?"]

Vendor(n, v, sel) == [name |-> n, value |-> v, is_selected |-> sel]

WinVendor(client, n, v) == [is_client |-> client, name |-> n, value |-> v]

Contact(date, vendors, win, qs) ==
    [id |-> 0, datePublished |-> date, shortListedVendors |-> vendors,
     win_vendor |-> win, questions |-> qs]

ContactNoQuestions(date, vendors, win) ==
    [id |-> 0, datePublished |-> date, shortListedVendors |-> vendors,
     win_vendor |-> win]

Opportunity(init, cs) == [_id |-> 0, initiativeId |-> init, contacts |-> cs]

Version(init) == [initiativeId |-> init]

Criteria(v, vs) == [_id |-> 0, value |-> v, versions |-> vs]

(* d with field f set to x, or left without it *)
Opt(d, f, xs) == {d} \cup {d @@ (f :> x) : x \in xs}

(* Identifiers are unique: a contact's id names its opportunity, a         *)
(* question's id names its contact.                                        *)
NumberQuestions(qs, cid) ==
    [k \in 1..Len(qs) |-> [qs[k] EXCEPT !.id = 10 * cid + k]]

NumberContacts(cs, oid) ==
    [j \in 1..Len(cs) |->
        LET c == [cs[j] EXCEPT !.id = 10 * oid + j]
        IN  IF Has(c, "questions")
            THEN [c EXCEPT !.questions = NumberQuestions(c.questions, c.id)]
            ELSE c]

NumberOpportunities(os) ==
    [i \in 1..Len(os) |->
        [os[i] EXCEPT !._id = i, !.contacts = NumberContacts(os[i].contacts, i)]]

NumberCriteria(cs) == [i \in 1..Len(cs) |-> [cs[i] EXCEPT !._id = i]]

-----------------------------------------------------------------------------
(* The checked inputs.  Each family varies one or two levels of the        *)
(* nesting up to its bound and keeps the other levels at a default.        *)

L50 == LoopInstance(LoopValue, TRUE, "X")
L50u == LoopInstance(LoopValue, FALSE, "X")
LADP == LoopInstance(7, TRUE, VendorName)
L7 == LoopInstance(7, TRUE, "X")
LoopPool == {L50, L50u, LADP, L7}

VendorsOK == <<Vendor(VendorName, 7, TRUE)>>
WinDefault == WinVendor(FALSE, "X", LoopValue)
(* a publication date *)
Published == 2017 * 10000 + 301

DefaultCriteria ==
    NumberCriteria(<<[_id |-> 0, value |-> 1, label |-> "L1", definition |-> "D1",
                      versions |-> <<[initiativeId |-> InitiativeId,
                                      definition |-> "V1"]>>]>>)

OneContact(qs) ==
    NumberOpportunities(
        <<Opportunity(InitiativeId, <<Contact(Published, VendorsOK, WinDefault, qs)>>)>>)

OneQuestion(cat, as) == OneContact(<<Question(cat, as)>>)

(* answers of one question, each with one loop instance or without the  *)
(* loopInstances field                                                   *)
AnswerPool ==
    LET vts == {<<100, "a">>, <<100, "b">>, <<Ceiling, "c">>, <<NULL, "n">>}
    IN  {Answer(vt[1], vt[2], <<l>>) : vt \in vts, l \in {L50, L50u, L7}}
            \cup {AnswerNoLoops(100, "a")}

InputsAnswers(cat, as) == <<OneQuestion(cat, as), DefaultCriteria>>

(* loop instances of one answer, beside a second answer of the question *)
InputsLoops(cat, v, ls, b) ==
    <<OneQuestion(cat, <<Answer(v, "a", ls), b>>), DefaultCriteria>>

(* questions of one contact *)
QuestionPool ==
    LET as == {<<Answer(100, "a", <<L50>>)>>,
               <<Answer(200, "b", <<LADP>>), Answer(Ceiling, "c", <<L50>>)>>,
               <<Answer(Ceiling, "c", <<L50u>>), Answer(100, "a", <<L50>>)>>}
    IN  {Question(cat, a) : cat \in Categories \cup {1}, a \in as}
            \cup {QuestionNoAnswers(Category147)}

InputsQuestions(qs) == <<OneContact(qs), DefaultCriteria>>

(* contacts of one opportunity *)
ContactPool ==
    LET vs == {VendorsOK, <<Vendor("X", LoopValue, TRUE)>>, <<Vendor("X", LoopValue, FALSE)>>}
        qs == {<<Question(Category105, <<Answer(100, "a", <<L50>>)>>)>>,
               <<Question(Category147, <<Answer(200, "b", <<LADP, L7>>)>>)>>}
    IN  {Contact(d, v, WinDefault, q) : d \in {NULL, Published}, v \in vs, q \in qs}
            \cup {ContactNoQuestions(Published, VendorsOK, WinDefault)}

InputsContacts(cs) ==
    <<NumberOpportunities(<<Opportunity(InitiativeId, cs)>>), DefaultCriteria>>

(* opportunities of the collection, with and without a top-level           *)
(* clientWinner field                                                      *)
OpportunityPool ==
    LET wins == {WinDefault, WinVendor(FALSE, VendorName, 7), WinVendor(TRUE, "X", 7)}
        q147 == <<Question(Category147, <<Answer(100, "a", <<L7>>)>>)>>
        q105 == <<Question(Category105, <<Answer(200, "b", <<L50>>)>>)>>
        cs == {<<Contact(Published, VendorsOK, w, q147)>> : w \in wins}
                  \cup {<<Contact(Published, VendorsOK, WinDefault, q105)>>}
    IN  UNION {Opt(Opportunity(InitiativeId, c), "clientWinner", BOOLEAN) : c \in cs}
            \cup {Opportunity(OtherInitiativeId,
                              <<Contact(Published, VendorsOK, WinDefault, q105)>>)}

InputsOpportunities(os) == <<NumberOpportunities(os), DefaultCriteria>>

(* the clientCriteria collection *)
CriteriaPool ==
    LET base == {Criteria(v, <<Version(i)>>) : v \in {1, 2},
                                                i \in {InitiativeId, OtherInitiativeId}}
    IN  UNION {Opt(c, "label", {"L1", "L2"}) : c \in base}
            \cup Opt(Criteria(1, <<Version(InitiativeId)>>) @@ ("definition" :> "D1"),
                     "label", {"L1", "L2"})

InputsCriteria(cs) ==
    <<OneQuestion(Category147, <<Answer(100, "a", <<L50>>)>>), NumberCriteria(cs)>>

(* the versions of one clientCriteria document, beside a second document *)
VersionPool ==
    UNION {Opt(Version(i), "definition", {NullText, "V1", "V2"}) :
              i \in {InitiativeId, OtherInitiativeId}}

VersionedPool ==
    UNION {Opt([_id |-> 0, value |-> 1, label |-> NullText, versions |-> vs],
               "definition", {NullText, "D1"}) :
              vs \in BSeq(VersionPool, MaxVersions)}

InputsVersions(c) ==
    <<OneQuestion(Category147, <<Answer(100, "a", <<L50>>)>>),
      NumberCriteria(<<c, [_id |-> 0, value |-> 1, label |-> "L2", definition |-> "D2",
                           versions |-> <<Version(InitiativeId)>>]>>)>>

(* the lookup key: criteria_value of the question, else of the answer *)
KeyedPool ==
    UNION {Opt(DropPath(Question(Category147, <<a>>), <<"criteria_value">>),
               "criteria_value", {NULL, 1, 2}) :
              a \in Opt(Answer(100, "a", <<L50>>), "criteria_value", {NULL, 1})}

InputsKeys(q) == <<OneContact(<<q>>), DefaultCriteria>>

(* two questions with different lookup keys, several answers and loop    *)
(* instances, beside a varying clientCriteria collection                  *)
TwoKeyedQuestions ==
    <<Question(Category147, <<Answer(100, "a", <<L50, L50u>>)>>),
      [Question(Category147, <<Answer(100, "b", <<L50>>), Answer(200, "b", <<L50>>)>>)
          EXCEPT !.criteria_value = 2]>>

InputsKeyedRows(cs) == <<OneContact(TwoKeyedQuestions), NumberCriteria(cs)>>

(* the run starts on the collections in *)
Start(in) ==
    /\ opportunities = in[1]
    /\ clientCriteria = in[2]
    /\ pc = 1
    /\ rows = in[1]
    /\ prev = <<>>
    /\ atGroup = <<>>
    /\ done = <<>>
    /\ tables = [Customers |-> <<>>, Orders |-> <<>>, OrderDetails |-> <<>>,
                 Products |-> <<>>]
    /\ sqlRows = <<>>
    /\ sqlPc = 0

-----------------------------------------------------------------------------
(* The stage list of task_3_1, in source order *)

(* Pipeline with the allow-list after the first $unwind *)
PipelineUnwindBeforeAllowList ==
    <<"match_index", "unwind_contacts", "project_allow", "unwind_questions",
      "match_questions", "unwind_answers", "unwind_loopInstances", "match_loops",
      "project_fields", "lookup", "group", "unwind_group_answers", "sort">>

Pipeline ==
    <<"match_index", "project_allow", "unwind_contacts", "unwind_questions",
      "match_questions", "unwind_answers", "unwind_loopInstances", "match_loops",
      "project_fields", "lookup", "group", "unwind_group_answers", "sort">>

(* the compound index before() creates on opportunities *)
OpportunitiesIndex ==
    <<"initiativeId", "contacts.questions.category_id", "contacts.datePublished">>

(* the paths the first $match has a condition on *)
MatchIndexPaths ==
    {"initiativeId", "contacts.questions.category_id", "contacts.datePublished",
     "contacts.shortListedVendors.name", "contacts.shortListedVendors.value",
     "contacts.shortListedVendors.is_selected"}

(* $match, first stage *)
VendorMatches(v) ==
    \/ /\ Has(v, "name") /\ v.name = VendorName
       /\ Has(v, "is_selected") /\ v.is_selected = TRUE
    \/ /\ Has(v, "value") /\ v.value \in ValueSet /\ Lt(v.value, Ceiling)
       /\ Has(v, "is_selected") /\ v.is_selected = TRUE

MatchIndex(o) ==
    /\ Has(o, "initiativeId") /\ o.initiativeId = InitiativeId
    /\ \E c \in Elems(o, "contacts") : \E q \in Elems(c, "questions") :
          Has(q, "category_id") /\ q.category_id \in Categories
    /\ \E c \in Elems(o, "contacts") :
          Has(c, "datePublished") /\ c.datePublished # NULL
    /\ \E c \in Elems(o, "contacts") : \E v \in Elems(c, "shortListedVendors") :
          VendorMatches(v)

(* $project, the field allow-list *)
AllowList ==
    {<<"contacts", "id">>,
     <<"contacts", "questions", "category_id">>,
     <<"contacts", "questions", "answers", "primary_answer_value">>,
     <<"contacts", "questions", "answers", "primary_answer_text">>,
     <<"contacts", "questions", "answers", "loopInstances", "loop_instance">>,
     <<"contacts", "questions", "answers", "loopInstances", "is_selected">>,
     <<"contacts", "questions", "answers", "loopInstances", "loop_text">>,
     <<"contacts", "questions", "answers", "criteria_value">>,
     <<"contacts", "questions", "criteria_value">>,
     <<"contacts", "questions", "label">>,
     <<"contacts", "questions", "raw_text">>,
     <<"contacts", "questions", "id">>,
     <<"contacts", "win_vendor", "is_client">>,
     <<"contacts", "win_vendor", "name">>,
     <<"contacts", "win_vendor", "value">>}

(* the fields that hold arrays of documents, and those that hold documents *)
ArrayFields == {"contacts", "questions", "answers", "loopInstances",
                "shortListedVendors", "versions"}
DocFields == {"win_vendor"}

(* An inclusion projection: a listed path keeps the whole value; a prefix  *)
(* of a listed path keeps the document, or each document of the array,    *)
(* projected in turn; every other field goes.  arrays are the fields that  *)
(* hold an array at this point of the pipeline.                            *)
RECURSIVE ProjectDoc(_, _, _, _)
ProjectDoc(d, prefix, allow, arrays) ==
    LET n == Len(prefix) + 1
        whole(f) == Append(prefix, f) \in allow
        part(f) == /\ f \in ArrayFields \cup DocFields
                   /\ \E a \in allow : Len(a) > n /\ SubSeq(a, 1, n) = Append(prefix, f)
        kept == {f \in DOMAIN d : whole(f) \/ part(f)}
    IN  [f \in kept |->
            IF whole(f) THEN d[f]
            ELSE IF f \in arrays
                 THEN [i \in 1..Len(d[f]) |->
                          ProjectDoc(d[f][i], Append(prefix, f), allow, arrays)]
                 ELSE ProjectDoc(d[f], Append(prefix, f), allow, arrays)]

(* _id stays unless it is excluded *)
Project(d, allow, arrays) == ProjectDoc(d, <<>>, allow \cup {<<"_id">>}, arrays)

(* UnwindRow as if preserveNullAndEmptyArrays were set *)
UnwindRowPreserving(r, path, preserveNullAndEmptyArrays) ==
    IF HasPath(r, path) /\ Len(GetPath(r, path)) > 0
    THEN [j \in 1..Len(GetPath(r, path)) |-> SetPath(r, path, GetPath(r, path)[j])]
    ELSE <<DropPath(r, path)>>

(* $unwind of the array at path, for one row *)
UnwindRow(r, path, preserveNullAndEmptyArrays) ==
    IF HasPath(r, path) /\ Len(GetPath(r, path)) > 0
    THEN [j \in 1..Len(GetPath(r, path)) |-> SetPath(r, path, GetPath(r, path)[j])]
    ELSE IF preserveNullAndEmptyArrays THEN <<DropPath(r, path)>> ELSE <<>>

(* no $unwind of the query sets preserveNullAndEmptyArrays *)
Unwind(rs, path) == Concat([i \in 1..Len(rs) |-> UnwindRow(rs[i], path, FALSE)])

(* $match after the contacts and questions are unwound *)
LoopMatches(l) ==
    \/ Has(l, "loop_instance") /\ l.loop_instance \in ValueSet
    \/ Has(l, "loop_text") /\ l.loop_text = VendorName

(* SelectedLoop without the is_selected condition *)
SelectedLoopAnySelection(l) == LoopMatches(l)

SelectedLoop(l) == Has(l, "is_selected") /\ l.is_selected = TRUE /\ LoopMatches(l)

ExcludedAnswer(a) ==
    /\ Has(a, "primary_answer_value") /\ Gte(a.primary_answer_value, Ceiling)
    /\ \E l \in Elems(a, "loopInstances") : SelectedLoop(l)

Excluded(q) ==
    /\ Has(q, "category_id") /\ q.category_id = Category105
    /\ \E a \in Elems(q, "answers") : ExcludedAnswer(a)

QuestionOf(r) ==
    IF HasPath(r, <<"contacts", "questions">>) THEN r.contacts.questions ELSE NoFields

MatchQuestions(r) ==
    /\ Has(QuestionOf(r), "category_id") /\ QuestionOf(r).category_id \in Categories
    /\ ~Excluded(QuestionOf(r))
    /\ \E a \in Elems(QuestionOf(r), "answers") :
          Has(a, "primary_answer_value") /\ Lt(a.primary_answer_value, Ceiling)

(* $match after the answers and loop instances are unwound *)
LoopOf(r) ==
    IF HasPath(r, <<"contacts", "questions", "answers", "loopInstances">>)
    THEN r.contacts.questions.answers.loopInstances ELSE NoFields

WinVendorOf(r) ==
    IF HasPath(r, <<"contacts", "win_vendor">>) THEN r.contacts.win_vendor ELSE NoFields

MatchLoops(r) ==
    \/ Has(LoopOf(r), "loop_instance") /\ LoopOf(r).loop_instance \in ValueSet
    \/ Has(LoopOf(r), "loop_text") /\ LoopOf(r).loop_text = VendorName
    \/ /\ Has(r, "clientWinner") /\ r.clientWinner = FALSE
       /\ Has(QuestionOf(r), "category_id") /\ QuestionOf(r).category_id = Category147
       /\ \/ Has(WinVendorOf(r), "value") /\ WinVendorOf(r).value \in ValueSet
          \/ Has(WinVendorOf(r), "name") /\ WinVendorOf(r).name = VendorName

(* $project after the last $match: kept paths and computed fields.  A     *)
(* computed field whose expression has no value is left out of the row.  *)
FieldsKept ==
    {<<"contacts", "id">>,
     <<"contacts", "questions", "id">>,
     <<"contacts", "questions", "answers">>,
     <<"contacts", "questions", "category_id">>}

OptField(f, has, v) == IF has THEN f :> v ELSE NoFields

AnswerOf(r) ==
    IF HasPath(r, <<"contacts", "questions", "answers">>)
    THEN r.contacts.questions.answers ELSE NoFields

(* $ifNull: the question's criteria_value unless null or missing, else    *)
(* whatever the answer's criteria_value is                                *)
CriteriaValueField(r) ==
    IF Has(QuestionOf(r), "criteria_value") /\ QuestionOf(r).criteria_value # NULL
    THEN "criteria_value" :> QuestionOf(r).criteria_value
    ELSE OptField("criteria_value", Has(AnswerOf(r), "criteria_value"),
                  AnswerOf(r).criteria_value)

(* $eq of two expressions: two missing values are equal *)
AggEq(hasA, a, hasB, b) == (hasA = hasB) /\ (hasA => a = b)

(* "$clientWinner" is the field of the incoming row, not the one computed *)
(* beside it                                                              *)
CompetitorWinner(r) ==
    /\ Has(r, "clientWinner") /\ r.clientWinner = FALSE
    /\ \/ AggEq(Has(LoopOf(r), "loop_instance"), LoopOf(r).loop_instance,
                Has(WinVendorOf(r), "value"), WinVendorOf(r).value)
       \/ Has(QuestionOf(r), "category_id") /\ QuestionOf(r).category_id = Category147

ProjectFields(r) ==
    Project(r, FieldsKept, {})
        @@ CriteriaValueField(r)
        @@ OptField("clientWinner", Has(WinVendorOf(r), "is_client"),
                    WinVendorOf(r).is_client)
        @@ ("competitorWinner" :> CompetitorWinner(r))

(* $lookup into clientCriteria: the sub-pipeline, in source order, run    *)
(* for one row with v1 bound to the row's criteria_value                  *)
LookupPipeline == <<"match_scope", "project", "match_value">>

LookupAllow ==
    {<<"value">>, <<"label">>, <<"definition">>, <<"versions", "definition">>}

(* InScope without the scope restriction *)
InScopeAnyInitiative(d) == Has(d, "versions")

InScope(d) ==
    \E v \in Elems(d, "versions") : Has(v, "initiativeId") /\ v.initiativeId = InitiativeId

LookupStage(name, docs, r) ==
    CASE name = "match_scope" -> SelectSeq(docs, InScope)
      [] name = "project" ->
            [i \in 1..Len(docs) |-> Project(docs[i], LookupAllow, ArrayFields)]
      [] name = "match_value" ->
            SelectSeq(docs, LAMBDA d : AggEq(Has(d, "value"), d.value,
                                             Has(r, "criteria_value"), r.criteria_value))

RECURSIVE RunLookup(_, _, _)
RunLookup(stages, docs, r) ==
    IF stages = <<>> THEN docs
    ELSE RunLookup(Tail(stages), LookupStage(Head(stages), docs, r), r)

Lookup(r) == r @@ ("criteria" :> RunLookup(LookupPipeline, clientCriteria, r))

(* $group by primary_answer_value *)

(* "$docs.f": the values of f in the documents that have it, in order *)
Pluck(docs, f) ==
    Concat([i \in 1..Len(docs) |-> IF Has(docs[i], f) THEN <<docs[i][f]>> ELSE <<>>])

(* "$criteria.versions.definition": per criteria document, the            *)
(* definitions its versions have                                          *)
VersionDefinitions(cs) ==
    Concat([i \in 1..Len(cs) |->
               IF Has(cs[i], "versions")
               THEN <<Pluck(cs[i].versions, "definition")>> ELSE <<>>])

(* $arrayElemAt: <<element>>, or <<>> when idx is past the end *)
ArrayElemAt(arr, idx) == IF Len(arr) > idx THEN <<arr[idx + 1]>> ELSE <<>>

TextOf(cs) == ArrayElemAt(Pluck(cs, "label"), 0)

(* DefinitionOf with the two operands of $ifNull swapped *)
DefinitionOfTopLevelFirst(cs) ==
    LET first == ArrayElemAt(VersionDefinitions(cs), 0)
        nested == IF first = <<>> THEN <<>> ELSE ArrayElemAt(first[1], 0)
        top == ArrayElemAt(Pluck(cs, "definition"), 0)
    IN  IF top # <<>> /\ top[1] # NullText THEN top ELSE nested

DefinitionOf(cs) ==
    LET first == ArrayElemAt(VersionDefinitions(cs), 0)
        nested == IF first = <<>> THEN <<>> ELSE ArrayElemAt(first[1], 0)
    IN  IF nested # <<>> /\ nested[1] # NullText
        THEN nested
        ELSE ArrayElemAt(Pluck(cs, "definition"), 0)

(* the document $push adds for a row: a field whose expression has no     *)
(* value is left out                                                      *)
Pushed(r) ==
    OptField("c", HasPath(r, <<"contacts", "id">>), r.contacts.id)
        @@ OptField("question_category", Has(QuestionOf(r), "category_id"),
                    QuestionOf(r).category_id)
        @@ OptField("question_id", Has(QuestionOf(r), "id"), QuestionOf(r).id)
        @@ OptField("ins", Has(LoopOf(r), "loop_instance"), LoopOf(r).loop_instance)
        @@ OptField("answer_value", Has(AnswerOf(r), "primary_answer_value"),
                    AnswerOf(r).primary_answer_value)
        @@ OptField("selected", Has(LoopOf(r), "is_selected"), LoopOf(r).is_selected)
        @@ OptField("value", Has(r, "criteria_value"), r.criteria_value)
        @@ OptField("text", TextOf(r.criteria) # <<>>, TextOf(r.criteria)[1])
        @@ OptField("definition", DefinitionOf(r.criteria) # <<>>,
                    DefinitionOf(r.criteria)[1])

(* GroupKey with the question in the key *)
GroupKeyPerQuestion(r) == IF Has(QuestionOf(r), "id") THEN QuestionOf(r).id ELSE NULL

(* a missing group key groups with null; $first of a missing field is null *)
GroupKey(r) ==
    IF Has(AnswerOf(r), "primary_answer_value")
    THEN AnswerOf(r).primary_answer_value ELSE NULL

FirstText(r) ==
    IF Has(AnswerOf(r), "primary_answer_text")
    THEN AnswerOf(r).primary_answer_text ELSE NullText

(* GroupOf with $last in place of $first for answer_text *)
GroupOfLastText(rs, k) ==
    LET members == SelectSeq(rs, LAMBDA r : GroupKey(r) = k)
    IN  [_id |-> k,
         answer_value |-> GroupKey(members[1]),
         answer_text |-> FirstText(members[Len(members)]),
         answers |-> [i \in 1..Len(members) |-> Pushed(members[i])],
         count |-> Len(members)]

(* GroupOf with $first in place of $push for answers *)
GroupOfFirstAnswer(rs, k) ==
    LET members == SelectSeq(rs, LAMBDA r : GroupKey(r) = k)
    IN  [_id |-> k,
         answer_value |-> GroupKey(members[1]),
         answer_text |-> FirstText(members[1]),
         answers |-> <<Pushed(members[1])>>,
         count |-> Len(members)]

GroupOf(rs, k) ==
    LET members == SelectSeq(rs, LAMBDA r : GroupKey(r) = k)
    IN  [_id |-> k,
         answer_value |-> GroupKey(members[1]),
         answer_text |-> FirstText(members[1]),
         answers |-> [i \in 1..Len(members) |-> Pushed(members[i])],
         count |-> Len(members)]

RECURSIVE Perms(_)
Perms(S) ==
    IF S = {} THEN {<<>>}
    ELSE UNION {{<<x>> \o p : p \in Perms(S \ {x})} : x \in S}

(* $group emits its groups in no specified order *)
GroupOutcomes(rs) ==
    {[i \in 1..Len(o) |-> GroupOf(rs, o[i])] :
        o \in Perms({GroupKey(rs[i]) : i \in 1..Len(rs)})}

(* $sort by answer_text, answers.question_id, answers.answer_value.  null *)
(* and missing sort before every value; strings sort in TextOrder.        *)
TextOrder == <<NullText, "a", "b", "c", "n">>

TextRank(t) == CHOOSE i \in 1..Len(TextOrder) : TextOrder[i] = t

SortKey(r) ==
    <<IF Has(r, "answer_text") THEN TextRank(r.answer_text) ELSE 1,
      IF HasPath(r, <<"answers", "question_id">>) THEN r.answers.question_id ELSE NULL,
      IF HasPath(r, <<"answers", "answer_value">>) THEN r.answers.answer_value ELSE NULL>>

KeyLeq(a, b) ==
    \/ a[1] < b[1]
    \/ a[1] = b[1] /\ a[2] < b[2]
    \/ a[1] = b[1] /\ a[2] = b[2] /\ a[3] <= b[3]

(* the orders a sort may return: rows that compare equal come out in any  *)
(* order                                                                  *)
RECURSIVE SortedOrders(_, _)
SortedOrders(rs, S) ==
    IF S = {} THEN {<<>>}
    ELSE UNION {{<<rs[i]>> \o t : t \in SortedOrders(rs, S \ {i})} :
                   i \in {i \in S : \A j \in S : KeyLeq(SortKey(rs[i]), SortKey(rs[j]))}}

SortOutcomes(rs) == SortedOrders(rs, 1..Len(rs))

Init ==
    \/ \E cat \in Categories, k \in 0..MaxAnswers : \E as \in [1..k -> AnswerPool] :
          Start(InputsAnswers(cat, as))
    \/ \E cat \in Categories, v \in {100, Ceiling + 1}, k \in 0..MaxLoops,
          b \in {Answer(200, "b", <<L50>>), AnswerNoLoops(200, "b")} :
          \E ls \in [1..k -> LoopPool] : Start(InputsLoops(cat, v, ls, b))
    \/ \E k \in 0..MaxQuestions : \E qs \in [1..k -> QuestionPool] :
          Start(InputsQuestions(qs))
    \/ \E k \in 0..MaxContacts : \E cs \in [1..k -> ContactPool] :
          Start(InputsContacts(cs))
    \/ \E k \in 0..MaxOpps : \E os \in [1..k -> OpportunityPool] :
          Start(InputsOpportunities(os))
    \/ \E k \in 0..MaxCriteria : \E cs \in [1..k -> CriteriaPool] :
          Start(InputsCriteria(cs))
    \/ \E c \in VersionedPool : Start(InputsVersions(c))
    \/ \E q \in KeyedPool : Start(InputsKeys(q))
    \/ \E k \in 0..MaxCriteria : \E cs \in [1..k -> CriteriaPool] :
          Start(InputsKeyedRows(cs))

(* what the stage named name may turn the stream rs into: one stream,    *)
(* or one per order the stage may emit                                    *)
StageOutcomes(name, rs) ==
    CASE name = "match_index" -> {SelectSeq(rs, MatchIndex)}
      [] name = "project_allow" ->
            {[i \in 1..Len(rs) |-> Project(rs[i], AllowList, ArrayFields)]}
      [] name = "unwind_contacts" -> {Unwind(rs, <<"contacts">>)}
      [] name = "unwind_questions" -> {Unwind(rs, <<"contacts", "questions">>)}
      [] name = "match_questions" -> {SelectSeq(rs, MatchQuestions)}
      [] name = "unwind_answers" ->
            {Unwind(rs, <<"contacts", "questions", "answers">>)}
      [] name = "unwind_loopInstances" ->
            {Unwind(rs, <<"contacts", "questions", "answers", "loopInstances">>)}
      [] name = "match_loops" -> {SelectSeq(rs, MatchLoops)}
      [] name = "project_fields" -> {[i \in 1..Len(rs) |-> ProjectFields(rs[i])]}
      [] name = "lookup" -> {[i \in 1..Len(rs) |-> Lookup(rs[i])]}
      [] name = "group" -> GroupOutcomes(rs)
      [] name = "unwind_group_answers" -> {Unwind(rs, <<"answers">>)}
      [] name = "sort" -> SortOutcomes(rs)

(* the results a stage list may return for a collection *)
RECURSIVE Run(_, _)
Run(stages, rs) ==
    IF stages = <<>> THEN {rs}
    ELSE UNION {Run(Tail(stages), out) : out \in StageOutcomes(Head(stages), rs)}

At(name) == pc \in DOMAIN Pipeline /\ Pipeline[pc] = name

(* the stage named name runs *)
Stage(name) ==
    /\ \E out \in StageOutcomes(name, rows) : rows' = out
    /\ prev' = rows
    /\ atGroup' = IF name = "group" THEN rows ELSE atGroup
    /\ done' = Append(done, name)
    /\ pc' = pc + 1
    /\ UNCHANGED <<opportunities, clientCriteria, sqlVars>>

StageMatchIndex == At("match_index") /\ Stage("match_index")
StageProjectAllow == At("project_allow") /\ Stage("project_allow")
StageUnwindContacts == At("unwind_contacts") /\ Stage("unwind_contacts")
StageUnwindQuestions == At("unwind_questions") /\ Stage("unwind_questions")
StageMatchQuestions == At("match_questions") /\ Stage("match_questions")
StageUnwindAnswers == At("unwind_answers") /\ Stage("unwind_answers")
StageUnwindLoopInstances == At("unwind_loopInstances") /\ Stage("unwind_loopInstances")
StageMatchLoops == At("match_loops") /\ Stage("match_loops")
StageProjectFields == At("project_fields") /\ Stage("project_fields")
StageLookup == At("lookup") /\ Stage("lookup")
StageGroup == At("group") /\ Stage("group")
StageUnwindGroupAnswers == At("unwind_group_answers") /\ Stage("unwind_group_answers")
StageSort == At("sort") /\ Stage("sort")

(* toArray: the stream after the last stage is what task_3_1 returns *)
Returned == pc = Len(Pipeline) + 1

Next ==
    \/ StageMatchIndex
    \/ StageProjectAllow
    \/ StageUnwindContacts
    \/ StageUnwindQuestions
    \/ StageMatchQuestions
    \/ StageUnwindAnswers
    \/ StageUnwindLoopInstances
    \/ StageMatchLoops
    \/ StageProjectFields
    \/ StageLookup
    \/ StageGroup
    \/ StageUnwindGroupAnswers
    \/ StageSort

Spec == Init /\ [][Next]_vars

-----------------------------------------------------------------------------
(* The query of task_1_22 *)

(* at most this many OrderDetails rows *)
MaxLines == 3

(* rows of the four tables *)
Customer(id, name) == [CustomerID |-> id, CompanyName |-> name]
Order(id, customer) == [OrderID |-> id, CustomerID |-> customer]
OrderDetail(order, product, price) ==
    [OrderID |-> order, ProductID |-> product, UnitPrice |-> price]
Product(id, name) == [ProductID |-> id, ProductName |-> name]

(* the derived table e *)
Maximal(order, product, price, customer) ==
    [OrderID |-> order, ProductID |-> product, UnitPrice |-> price,
     CustomerID |-> customer]

(* the columns a LEFT JOIN supplies when no row of the table matches *)
NoCustomer == Customer(NULL, NullText)
NoOrder == Order(NULL, NULL)
NoOrderDetail == OrderDetail(NULL, NULL, NULL)
NoProduct == Product(NULL, NullText)
NoMaximal == Maximal(NULL, NULL, NULL, NULL)

(* a comparison with NULL is not true *)
SqlLt(a, b) == a # NULL /\ b # NULL /\ a < b
SqlEq(a, b) == a # NULL /\ b # NULL /\ a = b

(* r LEFT JOIN a table AS alias: the row r beside each of the table's    *)
(* rows the ON condition is true of (matches), or beside none once       *)
LeftJoin(r, alias, matches, none) ==
    IF matches = <<>> THEN <<r @@ (alias :> none)>>
    ELSE [j \in 1..Len(matches) |-> r @@ (alias :> matches[j])]

From(t) == [i \in 1..Len(t.OrderDetails) |-> ("od" :> t.OrderDetails[i])]

JoinOd2(t, rs) ==
    Concat([i \in 1..Len(rs) |->
        LeftJoin(rs[i], "od2",
                 SelectSeq(t.OrderDetails,
                           LAMBDA x : SqlEq(rs[i].od.OrderID, x.OrderID)
                                        /\ SqlLt(rs[i].od.UnitPrice, x.UnitPrice)),
                 NoOrderDetail)])

JoinOrders(t, rs) ==
    Concat([i \in 1..Len(rs) |->
        LeftJoin(rs[i], "o",
                 SelectSeq(t.Orders, LAMBDA x : SqlEq(rs[i].od.OrderID, x.OrderID)),
                 NoOrder)])

(* the subquery: the order lines no line of the same order is dearer than *)
Subquery(t) ==
    LET joined == JoinOrders(t, JoinOd2(t, From(t)))
        kept == SelectSeq(joined, LAMBDA r : r.od2.OrderID = NULL)
    IN  [i \in 1..Len(kept) |->
            Maximal(kept[i].od.OrderID, kept[i].od.ProductID,
                    kept[i].od.UnitPrice, kept[i].o.CustomerID)]

JoinE(t, rs) ==
    Concat([i \in 1..Len(rs) |->
        LeftJoin(rs[i], "e",
                 SelectSeq(Subquery(t),
                           LAMBDA x : SqlEq(rs[i].o.CustomerID, x.CustomerID)
                                        /\ SqlLt(rs[i].od.UnitPrice, x.UnitPrice)),
                 NoMaximal)])

JoinCustomers(t, rs) ==
    Concat([i \in 1..Len(rs) |->
        LeftJoin(rs[i], "c",
                 SelectSeq(t.Customers,
                           LAMBDA x : SqlEq(rs[i].o.CustomerID, x.CustomerID)),
                 NoCustomer)])

JoinProducts(t, rs) ==
    Concat([i \in 1..Len(rs) |->
        LeftJoin(rs[i], "p",
                 SelectSeq(t.Products,
                           LAMBDA x : SqlEq(rs[i].od.ProductID, x.ProductID)),
                 NoProduct)])

Where(rs) == SelectSeq(rs, LAMBDA r : r.od2.OrderID = NULL /\ r.e.OrderID = NULL)

Selected(r) ==
    [CompanyName |-> r.c.CompanyName, ProductName |-> r.p.ProductName,
     PricePerItem |-> r.od.UnitPrice]

(* SELECT DISTINCT: the selected columns, every row once *)
SelectDistinct(rs) ==
    LET sel == [i \in 1..Len(rs) |-> Selected(rs[i])]
        first == {i \in 1..Len(sel) : \A j \in 1..(i - 1) : sel[j] # sel[i]}
        RECURSIVE Keep(_)
        Keep(i) == IF i > Len(sel) THEN <<>>
                   ELSE (IF i \in first THEN <<sel[i]>> ELSE <<>>) \o Keep(i + 1)
    IN  Keep(1)

(* the collation of the names in the tables; NULL sorts before every value *)
NameOrder == <<NullText, "A", "B", "P", "Q">>

NameRank(n) == CHOOSE i \in 1..Len(NameOrder) : NameOrder[i] = n

(* ORDER BY PricePerItem DESC, CompanyName, ProductName *)
Before(a, b) ==
    \/ a.PricePerItem > b.PricePerItem
    \/ /\ a.PricePerItem = b.PricePerItem
       /\ \/ NameRank(a.CompanyName) < NameRank(b.CompanyName)
          \/ /\ a.CompanyName = b.CompanyName
             /\ NameRank(a.ProductName) <= NameRank(b.ProductName)

(* the selected rows are distinct and the three columns are all of a row, *)
(* so exactly one order of them is sorted                                 *)
OrderBy(rs) ==
    CHOOSE out \in Perms(Range(rs)) :
        \A i, j \in 1..Len(out) : i < j => Before(out[i], out[j])

(* the steps of the query, in evaluation order *)
QueryPlan ==
    <<"from", "join_od2", "join_orders", "join_e", "join_customers",
      "join_products", "where", "select_distinct", "order_by">>

StepOutcome(name, t, rs) ==
    CASE name = "from" -> From(t)
      [] name = "join_od2" -> JoinOd2(t, rs)
      [] name = "join_orders" -> JoinOrders(t, rs)
      [] name = "join_e" -> JoinE(t, rs)
      [] name = "join_customers" -> JoinCustomers(t, rs)
      [] name = "join_products" -> JoinProducts(t, rs)
      [] name = "where" -> Where(rs)
      [] name = "select_distinct" -> SelectDistinct(rs)
      [] name = "order_by" -> OrderBy(rs)

(* the rows the query returns on the tables t *)
RECURSIVE RunQuery(_, _, _)
RunQuery(plan, t, rs) ==
    IF plan = <<>> THEN rs
    ELSE RunQuery(Tail(plan), t, StepOutcome(Head(plan), t, rs))

task_1_22(t) == RunQuery(QueryPlan, t, <<>>)

(* the tables: two customers, three orders, two products, and up to      *)
(* MaxLines order lines with distinct (OrderID, ProductID) in key order  *)
Prices == {10, 20, NULL}

LineKeys == <<<<1, 1>>, <<1, 2>>, <<2, 1>>, <<2, 2>>, <<3, 1>>, <<3, 2>>>>

Lines(K, price) ==
    LET keys == SelectSeq(LineKeys, LAMBDA k : k \in K)
    IN  [i \in 1..Len(keys) |-> OrderDetail(keys[i][1], keys[i][2], price[keys[i]])]

Tables(K, price, third) ==
    [Customers |-> <<Customer(1, "A"), Customer(2, "B")>>,
     Orders |-> <<Order(1, 1), Order(2, 1), Order(3, third)>>,
     OrderDetails |-> Lines(K, price),
     Products |-> <<Product(1, "P"), Product(2, "Q")>>]

InitQuery ==
    /\ \E K \in SUBSET Range(LineKeys) :
          /\ Cardinality(K) <= MaxLines
          /\ \E price \in [K -> Prices], third \in {1, 2} :
                tables = Tables(K, price, third)
    /\ sqlRows = <<>>
    /\ sqlPc = 1
    /\ opportunities = <<>>
    /\ clientCriteria = <<>>
    /\ pc = 0
    /\ rows = <<>>
    /\ prev = <<>>
    /\ atGroup = <<>>
    /\ done = <<>>

AtStep(name) == sqlPc \in DOMAIN QueryPlan /\ QueryPlan[sqlPc] = name

(* the query step named name runs *)
Step(name) ==
    /\ sqlRows' = StepOutcome(name, tables, sqlRows)
    /\ sqlPc' = sqlPc + 1
    /\ UNCHANGED <<tables, opportunities, clientCriteria, pc, rows, prev, atGroup, done>>

StepFrom == AtStep("from") /\ Step("from")
StepJoinOd2 == AtStep("join_od2") /\ Step("join_od2")
StepJoinOrders == AtStep("join_orders") /\ Step("join_orders")
StepJoinE == AtStep("join_e") /\ Step("join_e")
StepJoinCustomers == AtStep("join_customers") /\ Step("join_customers")
StepJoinProducts == AtStep("join_products") /\ Step("join_products")
StepWhere == AtStep("where") /\ Step("where")
StepSelectDistinct == AtStep("select_distinct") /\ Step("select_distinct")
StepOrderBy == AtStep("order_by") /\ Step("order_by")

(* result[0]: the rows after the last step are what task_1_22 returns *)
QueryReturned == sqlPc = Len(QueryPlan) + 1

NextQuery ==
    \/ StepFrom
    \/ StepJoinOd2
    \/ StepJoinOrders
    \/ StepJoinE
    \/ StepJoinCustomers
    \/ StepJoinProducts
    \/ StepWhere
    \/ StepSelectDistinct
    \/ StepOrderBy

SpecQuery == InitQuery /\ [][NextQuery]_vars

-----------------------------------------------------------------------------
(* C1: every returned record has answer_value strictly below the ceiling, *)
(* and no flattened answer whose primary_answer_value is null or at or    *)
(* above the ceiling reaches $group.                                      *)
C1_AnswerValueBelowCeiling ==
    /\ Returned => \A i \in 1..Len(rows) : Lt(rows[i].answer_value, Ceiling)
    /\ \A i \in 1..Len(atGroup) : Lt(GroupKey(atGroup[i]), Ceiling)

(* C2: the pipeline returns what it returns with the allow-list stage     *)
(* removed.                                                               *)
PipelineWithoutAllowList == SelectSeq(Pipeline, LAMBDA n : n # "project_allow")

C2_ProjectionSound ==
    Returned => rows \in Run(PipelineWithoutAllowList, opportunities)

Last(s) == s[Len(s)]

Ran(name) == done # <<>> /\ Last(done) = name

(* C3: no returned record comes from a (contact, question) pair whose     *)
(* question is of category 105 and has an answer at or above 9000 that    *)
(* itself holds a selected loop instance with loop_instance 50 or         *)
(* loop_text ADP; every other pair of category 105 or 147 with an answer  *)
(* below 9000 passes the $match that holds the rule.                      *)
C3_RuleHolds(q) ==
    /\ q.category_id = 105
    /\ \E a \in Elems(q, "answers") :
          /\ a.primary_answer_value >= 9000
          /\ \E l \in Elems(a, "loopInstances") :
                l.is_selected /\ (l.loop_instance = 50 \/ l.loop_text = "ADP")

C3_HasAnswerBelow(q) ==
    \E a \in Elems(q, "answers") :
        a.primary_answer_value # NULL /\ a.primary_answer_value < 9000

C3_RuledOut ==
    UNION {UNION {{<<c.id, q.id>> : q \in {x \in Elems(c, "questions") : C3_RuleHolds(x)}} :
                     c \in Elems(o, "contacts")} :
              o \in Range(opportunities)}

C3_ExclusionRule ==
    /\ Returned =>
          \A i \in 1..Len(rows) :
              <<rows[i].answers.c, rows[i].answers.question_id>> \notin C3_RuledOut
    /\ Ran("match_questions") =>
          \A i \in 1..Len(prev) :
              LET q == prev[i].contacts.questions
              IN  (q.category_id \in {105, 147} /\ C3_HasAnswerBelow(q) /\ ~C3_RuleHolds(q))
                      => prev[i] \in Range(rows)

(* a pair the rule removes beside a pair of category 105 that it keeps    *)
(* although one of its answers is at or above 9000                        *)
C3_Witness ==
    /\ Ran("match_questions")
    /\ \E i \in 1..Len(prev) :
          C3_RuleHolds(prev[i].contacts.questions) /\ prev[i] \notin Range(rows)
    /\ \E i \in 1..Len(rows) :
          /\ rows[i].contacts.questions.category_id = 105
          /\ \E a \in Range(rows[i].contacts.questions.answers) :
                a.primary_answer_value >= 9000

(* C4: the index-eligible $match is the first stage to run, the field     *)
(* allow-list the second, and no $unwind runs before either; the $match   *)
(* reads every key of the index that before() creates.                    *)
UnwindStages ==
    {"unwind_contacts", "unwind_questions", "unwind_answers",
     "unwind_loopInstances", "unwind_group_answers"}

C4_IndexedMatchThenAllowList ==
    /\ Range(OpportunitiesIndex) \subseteq MatchIndexPaths
    /\ Len(done) >= 1 => done[1] = "match_index"
    /\ Len(done) >= 2 => done[2] = "project_allow"
    /\ \A k \in 1..Len(done) : done[k] \in UnwindStages => k > 2

C4_Witness ==
    /\ Len(done) = 3 /\ done[3] = "unwind_contacts"
    /\ Len(prev) >= 1 /\ Len(rows) >= 2

(* C5: each $unwind replaces every row by one row per element of the     *)
(* array at its path, in element order and in row order, the other       *)
(* fields unchanged, nothing dropped or duplicated; a row whose array is *)
(* empty or missing yields no row.                                       *)
C5_Path(name) ==
    CASE name = "unwind_contacts" -> <<"contacts">>
      [] name = "unwind_questions" -> <<"contacts", "questions">>
      [] name = "unwind_answers" -> <<"contacts", "questions", "answers">>
      [] name = "unwind_loopInstances" ->
            <<"contacts", "questions", "answers", "loopInstances">>

C5_Length(r, path) == IF HasPath(r, path) THEN Len(GetPath(r, path)) ELSE 0

(* the number of rows the rows before the i-th must yield *)
RECURSIVE C5_Before(_, _)
C5_Before(i, path) ==
    IF i = 1 THEN 0 ELSE C5_Before(i - 1, path) + C5_Length(prev[i - 1], path)

C5_UnwindExpands ==
    \A name \in {"unwind_contacts", "unwind_questions", "unwind_answers",
                 "unwind_loopInstances"} :
        Ran(name) =>
            /\ Len(rows) = C5_Before(Len(prev) + 1, C5_Path(name))
            /\ \A i \in 1..Len(prev) : \A j \in 1..C5_Length(prev[i], C5_Path(name)) :
                  LET out == rows[C5_Before(i, C5_Path(name)) + j]
                  IN  /\ GetPath(out, C5_Path(name)) = GetPath(prev[i], C5_Path(name))[j]
                      /\ DropPath(out, C5_Path(name)) = DropPath(prev[i], C5_Path(name))

(* a row without the array beside a row whose array has several elements *)
C5_Witness ==
    /\ Ran("unwind_loopInstances")
    /\ \E i \in 1..Len(prev) : ~HasPath(prev[i], C5_Path("unwind_loopInstances"))
    /\ \E i \in 1..Len(prev) : C5_Length(prev[i], C5_Path("unwind_loopInstances")) >= 2
    /\ Len(rows) >= 2

(* the rows of a group, in the order they reached $group *)
MembersOf(key) ==
    SelectSeq(atGroup, LAMBDA r : r.contacts.questions.answers.primary_answer_value = key)

(* the field f of e holds v, or e has no field f when there is no value *)
FieldIs(e, f, has, v) == IF has THEN Has(e, f) /\ e[f] = v ELSE ~Has(e, f)

Min(S) == CHOOSE x \in S : \A y \in S : x <= y

(* C6: every element pushed into a group's answers list has the fields   *)
(* text and definition, holding a value or an explicit null, also when   *)
(* the $lookup matched nothing.                                          *)
C6_LookupFieldsNeverAbsent ==
    Ran("group") =>
        \A i \in 1..Len(rows) : \A k \in 1..Len(rows[i].answers) :
            Has(rows[i].answers[k], "text") /\ Has(rows[i].answers[k], "definition")

(* C7, as claimed: with one or more matches, definition is the first     *)
(* version's definition of the first match, unless that is null or       *)
(* missing and then the top-level definition of the first match; text is *)
(* the label of the first match.                                         *)
C7_FirstMatchOnly ==
    Ran("group") =>
        \A i \in 1..Len(rows) : \A k \in 1..Len(rows[i].answers) :
            LET e == rows[i].answers[k]
                cs == MembersOf(rows[i]._id)[k].criteria
                vs == cs[1].versions
                nested == vs # <<>> /\ Has(vs[1], "definition")
                              /\ vs[1].definition # NullText
            IN  cs # <<>> =>
                    /\ FieldIs(e, "text", Has(cs[1], "label"), cs[1].label)
                    /\ IF nested
                       THEN FieldIs(e, "definition", TRUE, vs[1].definition)
                       ELSE FieldIs(e, "definition", Has(cs[1], "definition"),
                                    cs[1].definition)

(* C7, amended: text is the label of the first match that has a label    *)
(* field; definition is the first definition present among the versions  *)
(* of the first match, unless that is null or none is present, and then  *)
(* the top-level definition of the first match that has one; so no value *)
(* comes from a later match when the first match supplies it.            *)
C7_FirstPresentValue ==
    Ran("group") =>
        \A i \in 1..Len(rows) : \A k \in 1..Len(rows[i].answers) :
            LET e == rows[i].answers[k]
                cs == MembersOf(rows[i]._id)[k].criteria
                labelled == {m \in 1..Len(cs) : Has(cs[m], "label")}
                defined == {m \in 1..Len(cs) : Has(cs[m], "definition")}
                vs == cs[1].versions
                versioned == {j \in 1..Len(vs) : Has(vs[j], "definition")}
                nested == versioned # {} /\ vs[Min(versioned)].definition # NullText
            IN  cs # <<>> =>
                    /\ FieldIs(e, "text", labelled # {}, cs[Min(labelled)].label)
                    /\ IF nested
                       THEN FieldIs(e, "definition", TRUE, vs[Min(versioned)].definition)
                       ELSE FieldIs(e, "definition", defined # {},
                                    cs[Min(defined)].definition)
                    /\ Has(cs[1], "label") => e.text = cs[1].label

(* two matches, the first without a label, and a first match whose first *)
(* version has no definition while its second has one                    *)
C7_Witness ==
    /\ Ran("group")
    /\ \E i \in 1..Len(atGroup) :
          LET cs == atGroup[i].criteria
          IN  \/ Len(cs) >= 2 /\ ~Has(cs[1], "label") /\ Has(cs[2], "label")
              \/ /\ Len(cs) >= 2 /\ Len(cs[1].versions) >= 2
                 /\ ~Has(cs[1].versions[1], "definition")
                 /\ Has(cs[1].versions[2], "definition")

(* C8: the scope restriction is the first stage of the $lookup           *)
(* sub-pipeline and precedes the match on value; a clientCriteria        *)
(* document outside the initiative is never attached to a row, also when *)
(* its value equals the row's criteria_value.                            *)
C8_ScopeBeforeValue ==
    /\ LookupPipeline[1] = "match_scope"
    /\ \E j \in 2..Len(LookupPipeline) : LookupPipeline[j] = "match_value"
    /\ Ran("lookup") =>
          \A i \in 1..Len(rows) : \A k \in 1..Len(rows[i].criteria) :
              \E d \in Range(clientCriteria) :
                  /\ d._id = rows[i].criteria[k]._id
                  /\ \E v \in Range(d.versions) :
                        v.initiativeId = "58af4da0b310d92314627290"
                  /\ Has(rows[i], "criteria_value") /\ d.value = rows[i].criteria_value

(* a document outside the scope with the row's key, beside one attached *)
C8_Witness ==
    /\ Ran("lookup")
    /\ \E i \in 1..Len(rows) :
          /\ rows[i].criteria # <<>>
          /\ \E d \in Range(clientCriteria) :
                /\ \A v \in Range(d.versions) :
                      v.initiativeId # "58af4da0b310d92314627290"
                /\ d.value = rows[i].criteria_value

(* the primary_answer_value of a row that reached $group *)
ValueOf(r) == r.contacts.questions.answers.primary_answer_value

RowsWith(key) == {m \in 1..Len(atGroup) : ValueOf(atGroup[m]) = key}

(* C9: rows are grouped by equality of primary_answer_value alone: one   *)
(* group per value, holding every row of that value whatever its         *)
(* opportunity, contact or question; count is the number of rows that    *)
(* reached $group with the key, and so the number of returned records    *)
(* with that _id.                                                        *)
C9_GroupByValueOnly ==
    /\ Ran("group") =>
          /\ \A i, j \in 1..Len(rows) : rows[i]._id = rows[j]._id => i = j
          /\ \A m \in 1..Len(atGroup) :
                \E i \in 1..Len(rows) : rows[i]._id = ValueOf(atGroup[m])
          /\ \A i \in 1..Len(rows) :
                /\ rows[i].count = Cardinality(RowsWith(rows[i]._id))
                /\ Len(rows[i].answers) = rows[i].count
    /\ Returned =>
          \A i \in 1..Len(rows) :
              /\ rows[i].count = Cardinality(RowsWith(rows[i]._id))
              /\ rows[i].count =
                    Cardinality({m \in 1..Len(rows) : rows[m]._id = rows[i]._id})

(* two rows of one value from different questions, beside another group *)
C9_Witness ==
    /\ Returned
    /\ \E m, n \in 1..Len(atGroup) :
          /\ ValueOf(atGroup[m]) = ValueOf(atGroup[n])
          /\ atGroup[m].contacts.questions.id # atGroup[n].contacts.questions.id
    /\ \E i, j \in 1..Len(rows) : rows[i]._id # rows[j]._id

(* C10: answer_text of every returned record is the primary_answer_text  *)
(* of the earliest row, in the order the rows reached $group, that has   *)
(* the record's group key; the rows reach $group in the order of their   *)
(* opportunities, contacts and questions.                                *)
C10_FirstSeen ==
    /\ \A m, n \in 1..Len(atGroup) :
          m < n => atGroup[m].contacts.questions.id <= atGroup[n].contacts.questions.id
    /\ Returned =>
          \A i \in 1..Len(rows) :
              rows[i].answer_text =
                  atGroup[Min(RowsWith(rows[i]._id))]
                      .contacts.questions.answers.primary_answer_text

(* a group whose rows carry different texts *)
C10_Witness ==
    /\ Returned
    /\ \E m, n \in 1..Len(atGroup) :
          /\ m < n
          /\ ValueOf(atGroup[m]) = ValueOf(atGroup[n])
          /\ atGroup[m].contacts.questions.answers.primary_answer_text
                # atGroup[n].contacts.questions.answers.primary_answer_text

-----------------------------------------------------------------------------
(* the rows of rs whose sort key is k, in the order they have in rs *)
WithKey(rs, k) == SelectSeq(rs, LAMBDA r : SortKey(r) = k)

C11_Ascending ==
    \A i \in 1..Len(rows) - 1 : KeyLeq(SortKey(rows[i]), SortKey(rows[i + 1]))

(* C11: the returned sequence is ascending by answer_text, then by       *)
(* answers.question_id, then by answers.answer_value, and records equal  *)
(* on all three keys keep the relative order in which the $unwind of     *)
(* answers emitted them.                                                 *)
C11_SortedAndStable ==
    Returned =>
        /\ C11_Ascending
        /\ \A i \in 1..Len(rows) :
              WithKey(rows, SortKey(rows[i])) = WithKey(prev, SortKey(rows[i]))

-----------------------------------------------------------------------------
(* the position of the last $match in the stage list *)
LastMatchAt == CHOOSE i \in DOMAIN Pipeline : Pipeline[i] = "match_loops"

(* the flattened rows that pass the last $match *)
PassedLastMatch == Run(SubSeq(Pipeline, 1, LastMatchAt), opportunities)

(* what the stages after the last $match make of one flattened row *)
RecordOf(r) == Pushed(Lookup(ProjectFields(r)))

Occurrences(s, x) == Cardinality({i \in DOMAIN s : s[i] = x})

(* C14: the stages after the last $match neither drop nor duplicate rows: *)
(* there are as many returned records as flattened rows that passed the   *)
(* last $match, and every such row is returned as many times as it        *)
(* passed, whatever number of clientCriteria documents its $lookup found. *)
C14_RowsConserved ==
    Returned =>
        \A m \in PassedLastMatch :
            LET records == [j \in DOMAIN m |-> RecordOf(m[j])]
                returned == [i \in DOMAIN rows |-> rows[i].answers]
            IN  /\ Len(rows) = Len(m)
                /\ \A j \in DOMAIN m :
                      Occurrences(returned, records[j]) = Occurrences(records, records[j])

(* several rows in one group, a second group, a row whose $lookup found   *)
(* nothing and a row whose $lookup found several documents                *)
C14_Witness ==
    /\ Returned
    /\ Len(rows) >= 3
    /\ \E i, j \in DOMAIN rows : rows[i].count >= 2 /\ rows[j]._id # rows[i]._id
    /\ \E m, n \in DOMAIN atGroup :
          Len(atGroup[m].criteria) = 0 /\ Len(atGroup[n].criteria) >= 2

-----------------------------------------------------------------------------
(* the order lines of all orders of the customer c *)
LinesOf(c) ==
    {l \in Range(tables.OrderDetails) :
        \E o \in Range(tables.Orders) :
            o.OrderID = l.OrderID /\ o.CustomerID = c.CustomerID}

NameOf(l) ==
    (CHOOSE p \in Range(tables.Products) : p.ProductID = l.ProductID).ProductName

(* the lines of c whose UnitPrice is the maximum UnitPrice over LinesOf(c) *)
MaximalLinesOf(c) ==
    {l \in LinesOf(c) :
        /\ l.UnitPrice # NULL
        /\ \A m \in LinesOf(c) : m.UnitPrice # NULL => m.UnitPrice <= l.UnitPrice}

ReturnedFor(c) == {r \in Range(sqlRows) : r.CompanyName = c.CompanyName}

(* C12: for each customer having order lines the result holds exactly    *)
(* the distinct (CompanyName, ProductName, PricePerItem) rows of the     *)
(* lines whose UnitPrice is the maximum over all lines of all of the     *)
(* customer's orders: a line maximal only within its own order is not    *)
(* returned, and all lines tied at the maximum are.                      *)
C12_MaximalPerCustomer ==
    QueryReturned =>
        /\ Cardinality(Range(sqlRows)) = Len(sqlRows)
        /\ \A c \in Range(tables.Customers) :
              LinesOf(c) # {} =>
                  ReturnedFor(c) =
                      {[CompanyName |-> c.CompanyName, ProductName |-> NameOf(l),
                        PricePerItem |-> l.UnitPrice] : l \in MaximalLinesOf(c)}

(* the tables without the order lines whose UnitPrice is NULL *)
WithoutNullPrices(t) ==
    [t EXCEPT !.OrderDetails = SelectSeq(@, LAMBDA l : l.UnitPrice # NULL)]

C13_NullNeverBlocks ==
    QueryReturned =>
        SelectSeq(sqlRows, LAMBDA r : r.PricePerItem # NULL)
            = task_1_22(WithoutNullPrices(tables))

(* C13: an order line whose UnitPrice is NULL never appears in the       *)
(* result, and the other lines are returned as they are without it.      *)
C13_NullNeverMaximal ==
    /\ QueryReturned => \A i \in 1..Len(sqlRows) : sqlRows[i].PricePerItem # NULL
    /\ C13_NullNeverBlocks

====
